---- MODULE Spec2Model ----
(***************************************************************************)
(* MGItrimmer (src/mgionetrimmer.py): discovery of R1/R2 pairs, the CPU    *)
(* budget, the thread pool running cutadapt + header fixing per pair, the  *)
(* aggregation of the results into an exit code, and the rewrite of one    *)
(* .fastq.gz file by fix_headers_for_file.                                 *)
(***************************************************************************)
EXTENDS Integers, Sequences, FiniteSets, TLC

\* ---------------------------------------------------------------- bounds
MaxPairs == 2          \* pairs find_paired_fastqs may return in a run
MaxCpus == 3           \* multiprocessing.cpu_count() ranges over 1..MaxCpus
MaxOverride == 3       \* --max-workers ranges over None, -1..MaxOverride
BudgetMaxPairs == 5    \* pair counts of the budget specification
BudgetMaxCpus == 8     \* CPU counts of the budget specification
MaxLines == 5          \* lines of the file given to fix_headers_for_file
MaxLineLen == 2        \* characters of a line that departs from the pattern
MaxDirFiles == 4       \* entries of the --input directory

VARIABLES
  \* ---- the run (main)
  toolPresent,       \* shutil.which("cutadapt") is not None
  dirPairs,          \* number of R1/R2 pairs present in --input
  args_max_workers,  \* args.max_workers: <<>> is None, <<n>> the integer n
  total_cpus,        \* multiprocessing.cpu_count()
  mainpc,            \* position of main
  pairs,             \* list returned by find_paired_fastqs (pair ids)
  max_workers,       \* line 119 (0: not computed yet)
  per_job_threads,   \* line 122 (0: not computed yet)
  results,           \* list appended at line 130
  finished0,         \* as_completed: futures already finished when it starts
  waiter_finished,   \* as_completed: waiter.finished_futures, completion order
  report,            \* failures logged at lines 135-136
  exit_code,         \* -1 while running, then the process exit status
  \* ---- the jobs (run_cutadapt_for_pair in a pool thread)
  jpc,               \* position of each job
  tool_out,          \* outcome of subprocess.run for each job
  hdr_out,           \* outcomes of the fix_headers_for_file calls of each job
  tool_j,            \* the -j value each job passed to cutadapt (0: none)
  tool_calls,        \* number of subprocess.run calls made for each job
  fut,               \* the future of each job: <<>> until it is finished
  \* ---- one call of fix_headers_for_file(gz_path)
  fpc,               \* position of the call
  orig_lines,        \* lines of gz_path when the call starts
  gz_lines,          \* lines stored at gz_path (decompressed view)
  gz_complete,       \* gz_path holds a complete gzip stream (trailer written)
  tmp_exists,        \* temp_fastq exists
  tmp_lines,         \* lines written to temp_fastq
  exc,               \* an exception is propagating out of the try block
  remove_warning,    \* line 59 logged that temp_fastq could not be removed
  \* ---- history of the run
  completed,         \* jobs in the order their futures were finished
  early,             \* jobs already finished when as_completed started
  \* ---- one call of find_paired_fastqs(input_path)
  ppc,               \* position of the call
  pdir,              \* names of the entries of input_path
  files,             \* os.listdir(input_path), in the order it lists them
  r1_files,          \* line 29
  next_r1,           \* index in r1_files of the next r1 of the loop
  found,             \* the list pairs of line 30
  warnings           \* names logged at line 36

runVars == <<toolPresent, dirPairs, args_max_workers, total_cpus, mainpc, pairs,
             max_workers, per_job_threads, results, finished0, waiter_finished,
             report, exit_code>>
jobVars == <<jpc, tool_out, hdr_out, tool_j, tool_calls, fut>>
histVars == <<completed, early>>
pairVars == <<ppc, pdir, files, r1_files, next_r1, found, warnings>>
fixVars == <<fpc, orig_lines, gz_lines, gz_complete, tmp_exists, tmp_lines, exc,
            remove_warning>>
vars == <<runVars, jobVars, fixVars, histVars, pairVars>>

Min(a, b) == IF a <= b THEN a ELSE b
Max(a, b) == IF a >= b THEN a ELSE b

None == <<>>
Overrides == {None} \cup {<<n>> : n \in (-1)..MaxOverride}

\* ------------------------------------------------------- ResourceBudgeter
\* line 119: args.max_workers if args.max_workers and args.max_workers > 0
\*           else min(len(pairs), total_cpus)
MaxWorkersNoOverride(amw, npairs, cpus) == Min(npairs, cpus)

MaxWorkersCapacityOnly(amw, npairs, cpus) ==
  IF amw # None /\ amw[1] # 0 /\ amw[1] > 0 THEN amw[1] ELSE cpus

MaxWorkersOf(amw, npairs, cpus) ==
  IF amw # None /\ amw[1] # 0 /\ amw[1] > 0
  THEN amw[1]
  ELSE Min(npairs, cpus)

\* line 122: max(1, total_cpus // max_workers)
PerJobThreadsWhole(cpus, mw) == cpus

PerJobThreadsOf(cpus, mw) == Max(1, cpus \div mw)

\* ------------------------------------------------------------------ jobs
Jobs == 1..dirPairs
\* the jobs that hold a pool thread; a job that failed has given its back
RunningLeaky ==
  {j \in Jobs :
     \/ jpc[j] \in {"cutadapt", "cutadapt_hung", "headers_r1", "headers_r2"}
     \/ jpc[j] = "returned" /\ fut[j][2] = "False"}

Running ==
  {j \in Jobs :
     jpc[j] \in {"cutadapt", "cutadapt_hung", "headers_r1", "headers_r2"}}
Queued == {j \in Jobs : jpc[j] = "queued"}
Unsubmitted == {j \in Jobs : jpc[j] = "unsubmitted"}

\* A pool thread takes the oldest work item when fewer than max_workers
\* threads are busy (ThreadPoolExecutor(max_workers=...), line 127).
WorkerFreeUnbounded(running, mw) == TRUE

WorkerFree(running, mw) == Cardinality(running) < mw

\* lines 84-87: the two except clauses around subprocess.run
ToolFailureRaises(j, o) == <<j, "raise", o>>

ToolFailureResult(j, o) ==
  IF o = "CalledProcessError"
  THEN <<j, "False", "Erro cutadapt">>
  ELSE <<j, "False", "Erro inesperado">>

\* lines 94-95
HeaderFailureSwallowed(j) == <<j, "True", "None">>

HeaderFailureResult(j) == <<j, "False", "Erro ajustando headers">>

\* line 97
SuccessResult(j) == <<j, "True", "None">>

\* lines 85, 87, 95, 97: the job returns its result, whatever it is; nothing
\* at lines 127-130 submits a pair again
AfterResultRetry(r) == IF r[2] = "True" THEN "returned" ELSE "queued"

AfterResult(r) == "returned"

\* Future.set_result: the future is finished; a waiter installed by
\* as_completed records it in completion order.
Finish(j, r) ==
  /\ fut' = [fut EXCEPT ![j] = r]
  /\ jpc' = [jpc EXCEPT ![j] = AfterResult(r)]
  /\ completed' = Append(completed, j)
  /\ waiter_finished' = IF mainpc = "as_completed"
                        THEN Append(waiter_finished, j)
                        ELSE waiter_finished

\* lines 66-82: a worker starts the job and launches cutadapt with -j
StartJob(j) ==
  /\ jpc[j] = "queued"
  /\ \A k \in Queued : j <= k
  /\ WorkerFree(Running, max_workers)
  /\ jpc' = [jpc EXCEPT ![j] = "cutadapt"]
  /\ tool_j' = [tool_j EXCEPT ![j] = Max(1, per_job_threads)]
  /\ tool_calls' = [tool_calls EXCEPT ![j] = @ + 1]
  /\ UNCHANGED <<fixVars, pairVars, histVars>>
  /\ UNCHANGED <<runVars, tool_out, hdr_out, fut>>

\* lines 82-87: subprocess.run returns 0, exits nonzero, or cannot be launched
ToolReturn(j, o) ==
  /\ jpc[j] = "cutadapt"
  /\ tool_out' = [tool_out EXCEPT ![j] = o]
  /\ IF o = "ok"
     THEN /\ jpc' = [jpc EXCEPT ![j] = "headers_r1"]
          /\ UNCHANGED <<fut, waiter_finished, completed>>
     ELSE Finish(j, ToolFailureResult(j, o))
  /\ UNCHANGED <<fixVars, pairVars>>
  /\ UNCHANGED <<toolPresent, dirPairs, args_max_workers, total_cpus, mainpc,
                 pairs, max_workers, per_job_threads, results, finished0,
                 report, exit_code, hdr_out, tool_j, tool_calls, early>>

\* lines 90-97: fix_headers_for_file(out_r1), then fix_headers_for_file(out_r2)
FixHeadersStep(j, o) ==
  /\ jpc[j] \in {"headers_r1", "headers_r2"}
  /\ hdr_out' = [hdr_out EXCEPT ![j] = Append(@, o)]
  /\ IF o = "raised"
     THEN Finish(j, HeaderFailureResult(j))
     ELSE IF jpc[j] = "headers_r1"
          THEN /\ jpc' = [jpc EXCEPT ![j] = "headers_r2"]
               /\ UNCHANGED <<fut, waiter_finished, completed>>
          ELSE Finish(j, SuccessResult(j))
  /\ UNCHANGED pairVars
  /\ UNCHANGED <<toolPresent, dirPairs, args_max_workers, total_cpus, mainpc,
                 pairs, max_workers, per_job_threads, results, finished0,
                 report, exit_code, tool_out, tool_j, tool_calls, early>>

FixHeaders(j, o) ==
  /\ FixHeadersStep(j, o)
  /\ UNCHANGED fixVars

\* ------------------------------------------------------------------ main
\* lines 21-24, 111
AfterToolCheckIgnored(present) == "find_pairs"

AfterToolCheck(present) == IF present THEN "find_pairs" ELSE "exit"

CheckCutadapt ==
  /\ mainpc = "check_cutadapt"
  /\ mainpc' = AfterToolCheck(toolPresent)
  /\ exit_code' = IF mainpc' = "exit" THEN 1 ELSE exit_code
  /\ UNCHANGED <<fixVars, pairVars>>
  /\ UNCHANGED <<toolPresent, dirPairs, args_max_workers, total_cpus, pairs,
                 max_workers, per_job_threads, results, finished0,
                 waiter_finished, report, jobVars, histVars>>

\* lines 113-116
FindPairs ==
  /\ mainpc = "find_pairs"
  /\ pairs' = [k \in 1..dirPairs |-> k]
  /\ IF pairs' = <<>>
     THEN mainpc' = "exit" /\ exit_code' = 1
     ELSE mainpc' = "budget" /\ UNCHANGED exit_code
  /\ UNCHANGED <<fixVars, pairVars>>
  /\ UNCHANGED <<toolPresent, dirPairs, args_max_workers, total_cpus,
                 max_workers, per_job_threads, results, finished0,
                 waiter_finished, report, jobVars, histVars>>

\* lines 118-122
Budget ==
  /\ mainpc = "budget"
  /\ max_workers' = MaxWorkersOf(args_max_workers, Len(pairs), total_cpus)
  /\ per_job_threads' = PerJobThreadsOf(total_cpus, max_workers')
  /\ mainpc' = "submit"
  /\ UNCHANGED <<fixVars, pairVars>>
  /\ UNCHANGED <<toolPresent, dirPairs, args_max_workers, total_cpus, pairs,
                 results, finished0, waiter_finished, report, exit_code,
                 jobVars, histVars>>

\* line 128: executor.submit for the next pair, in pairing order
Submit ==
  /\ mainpc = "submit"
  /\ Unsubmitted # {}
  /\ LET j == CHOOSE k \in Unsubmitted : \A m \in Unsubmitted : k <= m
     IN jpc' = [jpc EXCEPT ![j] = "queued"]
  /\ UNCHANGED <<fixVars, pairVars>>
  /\ UNCHANGED <<runVars, tool_out, hdr_out, tool_j, tool_calls, fut, histVars>>

\* line 129: as_completed(futures) takes the futures already finished and
\* installs its waiter on the others
AsCompletedBegin ==
  /\ mainpc = "submit"
  /\ Unsubmitted = {}
  /\ finished0' = {j \in Jobs : jpc[j] = "returned"}
  /\ early' = finished0'
  /\ mainpc' = "as_completed"
  /\ UNCHANGED <<fixVars, pairVars>>
  /\ UNCHANGED <<toolPresent, dirPairs, args_max_workers, total_cpus, pairs,
                 max_workers, per_job_threads, results, waiter_finished,
                 report, exit_code, jobVars, completed>>

\* the for loop of line 129 ends when as_completed has yielded every future
LoopDoneOnFailure(res, n) ==
  Len(res) = n \/ \E k \in 1..Len(res) : res[k][2] # "True"

LoopDone(res, n) == Len(res) = n

\* line 130: results.append(fut.result()); fut.result() re-raises what the
\* job raised, which ends main with a traceback (exit status 1)
Take(j) ==
  IF fut[j][2] = "raise"
  THEN /\ mainpc' = "exit"
       /\ exit_code' = 1
       /\ UNCHANGED results
  ELSE /\ results' = Append(results, fut[j])
       /\ UNCHANGED <<mainpc, exit_code>>

Collect ==
  /\ mainpc = "as_completed"
  /\ ~LoopDone(results, Len(pairs))
  /\ IF finished0 # {}
     THEN \E j \in finished0 :
            /\ finished0' = finished0 \ {j}
            /\ Take(j)
            /\ UNCHANGED waiter_finished
     ELSE /\ waiter_finished # <<>>
          /\ waiter_finished' = Tail(waiter_finished)
          /\ Take(Head(waiter_finished))
          /\ UNCHANGED finished0
  /\ UNCHANGED <<fixVars, pairVars>>
  /\ UNCHANGED <<toolPresent, dirPairs, args_max_workers, total_cpus, pairs,
                 max_workers, per_job_threads, report, jobVars, histVars>>

\* lines 127, 130: the loop ends and the with block shuts the executor down
EndCollect ==
  /\ mainpc = "as_completed"
  /\ LoopDone(results, Len(pairs))
  /\ Running = {} /\ Queued = {}
  /\ mainpc' = "aggregate"
  /\ UNCHANGED <<fixVars, pairVars>>
  /\ UNCHANGED <<toolPresent, dirPairs, args_max_workers, total_cpus, pairs,
                 max_workers, per_job_threads, results, finished0,
                 waiter_finished, report, exit_code, jobVars, histVars>>

\* line 132
FailuresInPairOrder(res) ==
  LET f == SelectSeq(res, LAMBDA r : r[2] # "True")
      entries == {f[k] : k \in 1..Len(f)}
  IN CHOOSE s \in [1..Len(f) -> entries] :
       /\ {s[k] : k \in 1..Len(f)} = entries
       /\ \A k \in 1..(Len(f) - 1) : s[k][1] < s[k + 1][1]

Failures(res) == SelectSeq(res, LAMBDA r : r[2] # "True")

\* lines 133-139
ExitCodeAlwaysZero(failures) == 0

ExitCodeFor(failures) == IF failures # <<>> THEN 1 ELSE 0

Aggregate ==
  /\ mainpc = "aggregate"
  /\ report' = Failures(results)
  /\ exit_code' = ExitCodeFor(report')
  /\ mainpc' = "exit"
  /\ UNCHANGED <<fixVars, pairVars>>
  /\ UNCHANGED <<toolPresent, dirPairs, args_max_workers, total_cpus, pairs,
                 max_workers, per_job_threads, results, finished0,
                 waiter_finished, jobVars, histVars>>

\* no call of find_paired_fastqs is being followed
PairsIdle ==
  /\ ppc = "idle"
  /\ pdir = {}
  /\ files = <<>>
  /\ r1_files = <<>>
  /\ next_r1 = 0
  /\ found = <<>>
  /\ warnings = <<>>

ToolOutcomes == {"ok", "CalledProcessError", "Exception"}
HeaderOutcomes == {"ok", "raised"}

Init ==
  /\ toolPresent \in BOOLEAN
  /\ dirPairs \in 0..MaxPairs
  /\ args_max_workers \in Overrides
  /\ total_cpus \in 1..MaxCpus
  /\ mainpc = "check_cutadapt"
  /\ pairs = <<>>
  /\ max_workers = 0
  /\ per_job_threads = 0
  /\ results = <<>>
  /\ finished0 = {}
  /\ waiter_finished = <<>>
  /\ report = <<>>
  /\ exit_code = -1
  /\ jpc = [j \in Jobs |-> "unsubmitted"]
  /\ tool_out = [j \in Jobs |-> "none"]
  /\ hdr_out = [j \in Jobs |-> <<>>]
  /\ tool_j = [j \in Jobs |-> 0]
  /\ tool_calls = [j \in Jobs |-> 0]
  /\ fut = [j \in Jobs |-> <<>>]
  /\ fpc = "idle"
  /\ orig_lines = <<>>
  /\ gz_lines = <<>>
  /\ gz_complete = TRUE
  /\ tmp_exists = FALSE
  /\ tmp_lines = <<>>
  /\ exc = FALSE
  /\ remove_warning = FALSE
  /\ completed = <<>>
  /\ early = {}
  /\ PairsIdle

Next ==
  \/ CheckCutadapt
  \/ FindPairs
  \/ Budget
  \/ Submit
  \/ AsCompletedBegin
  \/ Collect
  \/ EndCollect
  \/ Aggregate
  \/ \E j \in Jobs : StartJob(j)
  \/ \E j \in Jobs : \E o \in ToolOutcomes : ToolReturn(j, o)
  \/ \E j \in Jobs : \E o \in HeaderOutcomes : FixHeaders(j, o)

Spec == Init /\ [][Next]_vars

\* line 82: subprocess.run has no timeout; a cutadapt that never exits keeps
\* the job, and its pool thread, in the call for ever
ToolHang(j) ==
  /\ jpc[j] = "cutadapt"
  /\ jpc' = [jpc EXCEPT ![j] = "cutadapt_hung"]
  /\ UNCHANGED <<fixVars, pairVars, histVars>>
  /\ UNCHANGED <<runVars, tool_out, hdr_out, tool_j, tool_calls, fut>>

NextLive ==
  \/ Next
  \/ \E j \in Jobs : ToolHang(j)

\* The main thread and every pool thread keep being scheduled, and every
\* call that can return does; nothing forces a cutadapt call to hang.
Fairness ==
  /\ WF_vars(CheckCutadapt)
  /\ WF_vars(FindPairs)
  /\ WF_vars(Budget)
  /\ WF_vars(Submit)
  /\ WF_vars(AsCompletedBegin)
  /\ WF_vars(Collect)
  /\ WF_vars(EndCollect)
  /\ WF_vars(Aggregate)
  /\ \A j \in 1..MaxPairs :
       /\ WF_vars(j \in Jobs /\ StartJob(j))
       /\ WF_vars(j \in Jobs /\ \E o \in ToolOutcomes : ToolReturn(j, o))
       /\ WF_vars(j \in Jobs /\ \E o \in HeaderOutcomes : FixHeaders(j, o))

\* The runs without --max-workers: the pool has min(pairs, CPUs) workers.
InitLive ==
  /\ toolPresent \in BOOLEAN
  /\ dirPairs \in 0..MaxPairs
  /\ args_max_workers = None
  /\ total_cpus \in 1..MaxCpus
  /\ mainpc = "check_cutadapt"
  /\ pairs = <<>>
  /\ max_workers = 0
  /\ per_job_threads = 0
  /\ results = <<>>
  /\ finished0 = {}
  /\ waiter_finished = <<>>
  /\ report = <<>>
  /\ exit_code = -1
  /\ jpc = [j \in Jobs |-> "unsubmitted"]
  /\ tool_out = [j \in Jobs |-> "none"]
  /\ hdr_out = [j \in Jobs |-> <<>>]
  /\ tool_j = [j \in Jobs |-> 0]
  /\ tool_calls = [j \in Jobs |-> 0]
  /\ fut = [j \in Jobs |-> <<>>]
  /\ fpc = "idle"
  /\ orig_lines = <<>>
  /\ gz_lines = <<>>
  /\ gz_complete = TRUE
  /\ tmp_exists = FALSE
  /\ tmp_lines = <<>>
  /\ exc = FALSE
  /\ remove_warning = FALSE
  /\ completed = <<>>
  /\ early = {}
  /\ PairsIdle

SpecLive == InitLive /\ [][NextLive]_vars /\ Fairness

\* The run up to the launch of the tools, over wider pair and CPU counts.
InitBudget ==
  /\ toolPresent \in BOOLEAN
  /\ dirPairs \in 0..BudgetMaxPairs
  /\ args_max_workers \in Overrides
  /\ total_cpus \in 1..BudgetMaxCpus
  /\ mainpc = "check_cutadapt"
  /\ pairs = <<>>
  /\ max_workers = 0
  /\ per_job_threads = 0
  /\ results = <<>>
  /\ finished0 = {}
  /\ waiter_finished = <<>>
  /\ report = <<>>
  /\ exit_code = -1
  /\ jpc = [j \in Jobs |-> "unsubmitted"]
  /\ tool_out = [j \in Jobs |-> "none"]
  /\ hdr_out = [j \in Jobs |-> <<>>]
  /\ tool_j = [j \in Jobs |-> 0]
  /\ tool_calls = [j \in Jobs |-> 0]
  /\ fut = [j \in Jobs |-> <<>>]
  /\ fpc = "idle"
  /\ orig_lines = <<>>
  /\ gz_lines = <<>>
  /\ gz_complete = TRUE
  /\ tmp_exists = FALSE
  /\ tmp_lines = <<>>
  /\ exc = FALSE
  /\ remove_warning = FALSE
  /\ completed = <<>>
  /\ early = {}
  /\ PairsIdle

NextBudget ==
  \/ CheckCutadapt
  \/ FindPairs
  \/ Budget
  \/ Submit
  \/ \E j \in Jobs : StartJob(j)

SpecBudget == InitBudget /\ [][NextBudget]_vars

\* ------------------------------------------------- fix_headers_for_file
\* A file is the sequence of its lines, each a sequence of characters, every
\* line ended by "\n". CR is the carriage return.
CR == "CR"
Chars == {"@", "/", "x", CR}
Lines == UNION {[1..n -> Chars] : n \in 0..MaxLineLen}

\* A FASTQ-shaped file of n lines in which at most one line is arbitrary.
PatternLine(k) ==
  IF (k - 1) % 4 = 0 THEN <<"@", "/", "/">> ELSE <<"x", "/">>
PatternFile(n) == [k \in 1..n |-> PatternLine(k)]
FastqFiles ==
  UNION {{PatternFile(n)} \cup
         {[PatternFile(n) EXCEPT ![p] = l] : p \in 1..n, l \in Lines}
         : n \in 0..MaxLines}

\* line 44: gzip.open(gz_path, "rt") reads with universal newlines: "\r\n"
\* and a lone "\r" both end a line and are read as "\n".
RECURSIVE SplitCR(_, _)
SplitCR(l, cur) ==
  IF l = <<>> THEN <<cur>>
  ELSE IF Head(l) = CR
       THEN <<cur>> \o (IF Tail(l) = <<>> THEN <<>> ELSE SplitCR(Tail(l), <<>>))
       ELSE SplitCR(Tail(l), Append(cur, Head(l)))

RECURSIVE TextRead(_)
TextRead(ls) ==
  IF ls = <<>> THEN <<>> ELSE SplitCR(Head(ls), <<>>) \o TextRead(Tail(ls))

\* lines 46-49
StartsWithAt(line) == Len(line) > 0 /\ line[1] = "@"

ReplaceSlashOnce(line) ==
  [k \in 1..Len(line) |->
     IF line[k] = "/" /\ (\A m \in 1..(k - 1) : line[m] # "/")
     THEN " " ELSE line[k]]

ReplaceSlash(line) ==
  [k \in 1..Len(line) |-> IF line[k] = "/" THEN " " ELSE line[k]]
RewriteLine(i, line) ==
  IF i % 4 = 0 /\ StartsWithAt(line) THEN ReplaceSlash(line) ELSE line

FixActive == fpc \in {"open", "loop", "recompress", "copy"}

\* line 44: both files are opened; temp_fastq is created empty
FixOpen ==
  /\ fpc = "open"
  /\ tmp_exists' = TRUE
  /\ tmp_lines' = <<>>
  /\ fpc' = "loop"
  /\ UNCHANGED <<orig_lines, gz_lines, gz_complete, exc, remove_warning>>
  /\ UNCHANGED <<runVars, jobVars, histVars, pairVars>>

\* lines 45-49: one iteration; i is the number of lines written so far
FixLine ==
  /\ fpc = "loop"
  /\ LET fin == TextRead(gz_lines)
         i == Len(tmp_lines)
     IN /\ i < Len(fin)
        /\ tmp_lines' = Append(tmp_lines, RewriteLine(i, fin[i + 1]))
  /\ UNCHANGED <<fpc, orig_lines, gz_lines, gz_complete, tmp_exists, exc, remove_warning>>
  /\ UNCHANGED <<runVars, jobVars, histVars, pairVars>>

\* line 49 -> 51: the input is exhausted, both files are closed
FixLoopEnd ==
  /\ fpc = "loop"
  /\ Len(tmp_lines) = Len(TextRead(gz_lines))
  /\ fpc' = "recompress"
  /\ UNCHANGED <<orig_lines, gz_lines, gz_complete, tmp_exists, tmp_lines, exc, remove_warning>>
  /\ UNCHANGED <<runVars, jobVars, histVars, pairVars>>

\* line 51: gzip.open(gz_path, "wb") truncates gz_path
FixTruncate ==
  /\ fpc = "recompress"
  /\ gz_lines' = <<>>
  /\ gz_complete' = FALSE
  /\ fpc' = "copy"
  /\ UNCHANGED <<orig_lines, tmp_exists, tmp_lines, exc, remove_warning>>
  /\ UNCHANGED <<runVars, jobVars, histVars, pairVars>>

\* line 52: shutil.copyfileobj, one piece at a time
FixCopy ==
  /\ fpc = "copy"
  /\ Len(gz_lines) < Len(tmp_lines)
  /\ gz_lines' = Append(gz_lines, tmp_lines[Len(gz_lines) + 1])
  /\ UNCHANGED <<fpc, orig_lines, gz_complete, tmp_exists, tmp_lines, exc, remove_warning>>
  /\ UNCHANGED <<runVars, jobVars, histVars, pairVars>>

\* line 52 -> 53: the copy is over, closing f_out writes the gzip trailer
FixClose ==
  /\ fpc = "copy"
  /\ Len(gz_lines) = Len(tmp_lines)
  /\ gz_complete' = TRUE
  /\ fpc' = "finally"
  /\ UNCHANGED <<orig_lines, gz_lines, tmp_exists, tmp_lines, exc, remove_warning>>
  /\ UNCHANGED <<runVars, jobVars, histVars, pairVars>>

\* lines 44-52: an open, a read, a write or a close raises (missing or
\* corrupt input, full disk, ...); during the copy, leaving the with block
\* closes f_out, which may or may not manage to write the trailer
FixFail ==
  /\ FixActive
  /\ exc' = TRUE
  /\ fpc' = "finally"
  /\ IF fpc = "copy"
     THEN gz_complete' \in BOOLEAN
     ELSE UNCHANGED gz_complete
  /\ UNCHANGED <<orig_lines, gz_lines, tmp_exists, tmp_lines, remove_warning>>
  /\ UNCHANGED <<runVars, jobVars, histVars, pairVars>>

\* lines 53-59: the finally block removes temp_fastq if it exists; a failing
\* os.remove is logged and swallowed; then the call returns or re-raises
TempKept(existed, removed) == existed

TempAfterFinally(existed, removed) == existed /\ ~removed

FixFinally ==
  /\ fpc = "finally"
  /\ \E removed \in BOOLEAN :
       /\ tmp_exists' = TempAfterFinally(tmp_exists, removed)
       /\ remove_warning' = (tmp_exists /\ ~removed)
  /\ fpc' = IF exc THEN "raised" ELSE "returned"
  /\ UNCHANGED <<orig_lines, gz_lines, gz_complete, tmp_lines, exc>>
  /\ UNCHANGED <<runVars, jobVars, histVars, pairVars>>

\* lines 90-97: the call is over; run_cutadapt_for_pair goes on to the next
\* file or returns the job's result
FixReport(j) ==
  /\ fpc \in {"returned", "raised"}
  /\ FixHeadersStep(j, IF fpc = "raised" THEN "raised" ELSE "ok")
  /\ fpc' = "idle"
  /\ UNCHANGED <<orig_lines, gz_lines, gz_complete, tmp_exists, tmp_lines,
                 exc, remove_warning>>

\* the process is killed (or the machine stops) in the middle of the call
FixKill ==
  /\ FixActive \/ fpc = "finally"
  /\ fpc' = "killed"
  /\ UNCHANGED <<orig_lines, gz_lines, gz_complete, tmp_exists, tmp_lines, exc, remove_warning>>
  /\ UNCHANGED <<runVars, jobVars, histVars, pairVars>>

\* One call of fix_headers_for_file, made by the only job of a run while
\* main waits in as_completed, on the first or the second output file.
InitFix ==
  /\ toolPresent = TRUE
  /\ dirPairs = 1
  /\ args_max_workers = None
  /\ total_cpus = 1
  /\ mainpc = "as_completed"
  /\ pairs = <<1>>
  /\ max_workers = 1
  /\ per_job_threads = 1
  /\ results = <<>>
  /\ finished0 = {}
  /\ waiter_finished = <<>>
  /\ report = <<>>
  /\ exit_code = -1
  /\ jpc \in [Jobs -> {"headers_r1", "headers_r2"}]
  /\ tool_out = [j \in Jobs |-> "ok"]
  /\ hdr_out = [j \in Jobs |-> IF jpc[j] = "headers_r1" THEN <<>> ELSE <<"ok">>]
  /\ tool_j = [j \in Jobs |-> 1]
  /\ tool_calls = [j \in Jobs |-> 1]
  /\ fut = [j \in Jobs |-> <<>>]
  /\ fpc = "open"
  /\ orig_lines \in FastqFiles
  /\ gz_lines = orig_lines
  /\ gz_complete = TRUE
  /\ tmp_exists = FALSE
  /\ tmp_lines = <<>>
  /\ exc = FALSE
  /\ remove_warning = FALSE
  /\ completed = <<>>
  /\ early = {}
  /\ PairsIdle

NextFix ==
  \/ FixOpen
  \/ FixLine
  \/ FixLoopEnd
  \/ FixTruncate
  \/ FixCopy
  \/ FixClose
  \/ FixFail
  \/ FixFinally
  \/ FixKill
  \/ \E j \in Jobs : FixReport(j)

SpecFix == InitFix /\ [][NextFix]_vars

\* --------------------------------------------------- find_paired_fastqs
\* A file name is a sequence of pieces: one or two stem pieces, then its
\* extension. No piece is a prefix of another, so replacing "_R1" in the
\* string is replacing the piece, and the string order is the piecewise one.
StemPieces == {"a", "_R1", "_R2"}
ReadTags == {"_R1", "_R2"}
Stems == {<<t>> : t \in StemPieces} \cup (StemPieces \X ReadTags)
Names ==
  {Append(st, ".fastq.gz") : st \in Stems}
    \cup {<<t, ".txt">> : t \in StemPieces}
Directories == {d \in SUBSET Names : Cardinality(d) <= MaxDirFiles}

\* every order in which os.listdir may list a directory (line 27)
Listings(d) ==
  {l \in [1..Cardinality(d) -> d] :
     \A i, k \in 1..Cardinality(d) : i # k => l[i] # l[k]}

\* line 29: re.search(r"_R1.*\.fastq\.gz$", f)
IsR1(f) ==
  /\ f[Len(f)] = ".fastq.gz"
  /\ \E k \in 1..(Len(f) - 1) : f[k] = "_R1"

\* line 32: r1.replace("_R1", "_R2") replaces every occurrence
ReplaceR1(f) == [k \in 1..Len(f) |-> IF f[k] = "_R1" THEN "_R2" ELSE f[k]]

\* the order of Python strings: "." < "_" < "a", "1" < "2", "f" < "t"
PieceRank(t) ==
  CASE t = ".fastq.gz" -> 1
    [] t = ".txt" -> 2
    [] t = "_R1" -> 3
    [] t = "_R2" -> 4
    [] t = "a" -> 5

RECURSIVE NameLess(_, _)
NameLess(a, b) ==
  IF a = <<>> THEN b # <<>>
  ELSE IF b = <<>> THEN FALSE
  ELSE IF PieceRank(Head(a)) # PieceRank(Head(b))
       THEN PieceRank(Head(a)) < PieceRank(Head(b))
       ELSE NameLess(Tail(a), Tail(b))

RECURSIVE InsertName(_, _)
InsertName(x, sq) ==
  IF sq = <<>> THEN <<x>>
  ELSE IF NameLess(x, Head(sq)) THEN <<x>> \o sq
  ELSE <<Head(sq)>> \o InsertName(x, Tail(sq))

\* line 29: sorted(...)
RECURSIVE Sorted(_)
SortedKeepsOrder(sq) == sq

Sorted(sq) ==
  IF sq = <<>> THEN <<>> ELSE InsertName(Head(sq), Sorted(Tail(sq)))

\* lines 27-30
ListDir ==
  /\ ppc = "listdir"
  /\ files' \in Listings(pdir)
  /\ r1_files' = Sorted(SelectSeq(files', IsR1))
  /\ next_r1' = 1
  /\ found' = <<>>
  /\ ppc' = "loop"
  /\ UNCHANGED <<pdir, warnings>>
  /\ UNCHANGED <<runVars, jobVars, fixVars, histVars>>

\* lines 31-36: one iteration of the loop
PairLoop ==
  /\ ppc = "loop"
  /\ next_r1 <= Len(r1_files)
  /\ LET r1 == r1_files[next_r1]
         r2 == ReplaceR1(r1)
     IN IF \E k \in 1..Len(files) : files[k] = r2
        THEN /\ found' = Append(found, <<r1, r2>>)
             /\ UNCHANGED warnings
        ELSE /\ warnings' = Append(warnings, r1)
             /\ UNCHANGED found
  /\ next_r1' = next_r1 + 1
  /\ UNCHANGED <<ppc, pdir, files, r1_files>>
  /\ UNCHANGED <<runVars, jobVars, fixVars, histVars>>

\* line 37
PairReturn ==
  /\ ppc = "loop"
  /\ next_r1 > Len(r1_files)
  /\ ppc' = "returned"
  /\ UNCHANGED <<pdir, files, r1_files, next_r1, found, warnings>>
  /\ UNCHANGED <<runVars, jobVars, fixVars, histVars>>

\* lines 66-68 and 41: the files the job of a pair writes in --output: the
\* two outputs, named as the inputs, and the temporary file of each
TempOf(f) == [f EXCEPT ![Len(f)] = ".fastq"]
WriteSet(pair) == {pair[1], pair[2], TempOf(pair[1]), TempOf(pair[2])}

InitPairs ==
  /\ toolPresent = TRUE
  /\ dirPairs = 0
  /\ args_max_workers = None
  /\ total_cpus = 1
  /\ mainpc = "find_pairs"
  /\ pairs = <<>>
  /\ max_workers = 0
  /\ per_job_threads = 0
  /\ results = <<>>
  /\ finished0 = {}
  /\ waiter_finished = <<>>
  /\ report = <<>>
  /\ exit_code = -1
  /\ jpc = [j \in Jobs |-> "unsubmitted"]
  /\ tool_out = [j \in Jobs |-> "none"]
  /\ hdr_out = [j \in Jobs |-> <<>>]
  /\ tool_j = [j \in Jobs |-> 0]
  /\ tool_calls = [j \in Jobs |-> 0]
  /\ fut = [j \in Jobs |-> <<>>]
  /\ fpc = "idle"
  /\ orig_lines = <<>>
  /\ gz_lines = <<>>
  /\ gz_complete = TRUE
  /\ tmp_exists = FALSE
  /\ tmp_lines = <<>>
  /\ exc = FALSE
  /\ remove_warning = FALSE
  /\ completed = <<>>
  /\ early = {}
  /\ ppc = "listdir"
  /\ pdir \in Directories
  /\ files = <<>>
  /\ r1_files = <<>>
  /\ next_r1 = 0
  /\ found = <<>>
  /\ warnings = <<>>

NextPairs ==
  \/ ListDir
  \/ PairLoop
  \/ PairReturn

SpecPairs == InitPairs /\ [][NextPairs]_vars

\* ---------------------------------------------------------------- claims
OverridePositive == args_max_workers # None /\ args_max_workers[1] > 0
OverrideOrTotalCapacity ==
  IF OverridePositive THEN args_max_workers[1] ELSE total_cpus
BudgetComputed == per_job_threads > 0
Dispatched == toolPresent /\ dirPairs >= 1
Succeeded(j) == tool_out[j] = "ok" /\ hdr_out[j] = <<"ok", "ok">>
Failed(j) ==
  \/ tool_out[j] \in {"CalledProcessError", "Exception"}
  \/ \E k \in 1..Len(hdr_out[j]) : hdr_out[j][k] = "raised"
ResultsOf(j) == {k \in 1..Len(results) : results[k][1] = j}

\* C2: failure isolation. When the run ends after dispatching jobs, every job
\* has run to completion and has exactly one collected result, which says
\* success exactly when the job's own cutadapt call and its own two header
\* rewrites succeeded, whatever happened to the other jobs.
C2Isolation ==
  /\ \A j \in Jobs : fut[j] # <<>> =>
       fut[j][2] = (IF Succeeded(j) THEN "True" ELSE "False")
  /\ (mainpc = "exit" /\ Dispatched) =>
       \A j \in Jobs :
         /\ jpc[j] = "returned"
         /\ Cardinality(ResultsOf(j)) = 1
         /\ \A k \in ResultsOf(j) :
              results[k][2] = (IF Succeeded(j) THEN "True" ELSE "False")

\* the cutadapt call of job 1 failed, job 2 ran to success all the same and
\* the report names job 1 only
C2Witness ==
  /\ mainpc = "exit" /\ dirPairs >= 2
  /\ tool_out[1] = "CalledProcessError"
  /\ \A j \in Jobs \ {1} : Succeeded(j)
  /\ results[1][1] = 1
  /\ report = <<<<1, "False", "Erro cutadapt">>>>

C4Original ==
  BudgetComputed =>
    /\ max_workers = Min(Len(pairs), OverrideOrTotalCapacity)
    /\ per_job_threads = Max(1, total_cpus \div max_workers)

\* C4 (amended): workerCount is the override when one is given and positive
\* and min(pairCount, totalCapacity) otherwise; perJobShare as stated.
C4Budget ==
  BudgetComputed =>
    /\ max_workers = (IF OverridePositive THEN args_max_workers[1]
                      ELSE Min(Len(pairs), total_cpus))
    /\ per_job_threads = Max(1, total_cpus \div max_workers)

C4Witness ==
  /\ BudgetComputed /\ OverridePositive
  /\ args_max_workers[1] > Len(pairs)
  /\ max_workers = args_max_workers[1]

\* C5: without a positive override and with at least one pair, workerCount is
\* min(pairCount, capacity) >= 1 and perJobShare is
\* max(1, capacity div workerCount) >= 1; with a positive override workerCount
\* is the override; (5 pairs, 4 CPUs) gives 4 and 1, (2 pairs, 8 CPUs) gives 2
\* and 4; the divisor of line 122 is never zero and every cutadapt call gets
\* -j >= 1.
C5Policy ==
  /\ mainpc = "budget" =>
       MaxWorkersOf(args_max_workers, Len(pairs), total_cpus) >= 1
  /\ BudgetComputed =>
       /\ ~OverridePositive =>
            /\ Len(pairs) >= 1
            /\ max_workers = Min(Len(pairs), total_cpus)
            /\ max_workers >= 1
            /\ per_job_threads = Max(1, total_cpus \div max_workers)
            /\ per_job_threads >= 1
       /\ OverridePositive => max_workers = args_max_workers[1]
       /\ (~OverridePositive /\ Len(pairs) = 5 /\ total_cpus = 4) =>
            max_workers = 4 /\ per_job_threads = 1
       /\ (~OverridePositive /\ Len(pairs) = 2 /\ total_cpus = 8) =>
            max_workers = 2 /\ per_job_threads = 4
  /\ \A j \in Running : tool_j[j] >= 1 /\ tool_j[j] = per_job_threads

C5Witness ==
  /\ ~OverridePositive /\ Len(pairs) = 2 /\ total_cpus = 8
  /\ max_workers = 2 /\ per_job_threads = 4
  /\ Cardinality(Running) = 2

\* C6: the jobs started and not yet finished never outnumber max_workers,
\* although every job is already submitted.
C6PoolBound == BudgetComputed => Cardinality(Running) <= max_workers

\* every job is submitted, the pool is full and a job waits in the queue
C6Witness ==
  /\ Unsubmitted = {} /\ Queued # {}
  /\ Cardinality(Running) = max_workers

\* C7: no verdict while a job is pending or running; when aggregation starts
\* exactly one result has been collected for each pair.
C7AllCollected ==
  (Dispatched /\ (mainpc = "aggregate" \/ exit_code # -1)) =>
    /\ Len(results) = Len(pairs)
    /\ Len(pairs) = dirPairs
    /\ \A j \in Jobs : jpc[j] = "returned" /\ Cardinality(ResultsOf(j)) = 1

\* aggregation starts after the first collected result was a failure
C7Witness ==
  /\ mainpc = "aggregate" /\ Len(results) >= 2
  /\ results[1][2] = "False" /\ results[Len(results)][2] = "True"

\* C8: exit code 0 iff cutadapt is present, a pair was found and every job
\* succeeded; nonzero exactly when cutadapt is missing, no pair was found or
\* some job failed.
C8ExitCode ==
  mainpc = "exit" =>
    /\ exit_code = 0 <=>
         (toolPresent /\ dirPairs >= 1 /\ \A j \in Jobs : Succeeded(j))
    /\ exit_code # 0 <=>
         (~toolPresent \/ dirPairs = 0 \/ \E j \in Jobs : Failed(j))

C8Witness ==
  /\ mainpc = "exit" /\ exit_code = 1 /\ Dispatched
  /\ \E j \in Jobs : Succeeded(j)
  /\ \E j \in Jobs : hdr_out[j] = <<"ok", "raised">>

\* C9: with cutadapt missing or no pair found the run ends with a nonzero
\* exit code and no job is ever submitted, no cutadapt call and no header
\* rewrite is made.
C9FatalNoDispatch ==
  (~toolPresent \/ dirPairs = 0) =>
    /\ mainpc \in {"check_cutadapt", "find_pairs", "exit"}
    /\ mainpc = "exit" => exit_code = 1
    /\ ~BudgetComputed
    /\ \A j \in Jobs :
         /\ jpc[j] = "unsubmitted"
         /\ tool_out[j] = "none" /\ tool_j[j] = 0
         /\ hdr_out[j] = <<>>

C9Witness ==
  /\ mainpc = "exit" /\ exit_code = 1
  /\ ~toolPresent /\ dirPairs >= 1

\* What the rewrite is to store: line i of the input, with every "/" turned
\* into a space when i mod 4 = 0 and the line starts with "@".
Expected(ls) == [k \in 1..Len(ls) |-> RewriteLine(k - 1, ls[k])]

\* C1: whatever step a crash or an I/O failure interrupts, gz_path holds
\* either the complete original content or the complete rewritten content.
C1Original ==
  /\ gz_complete
  /\ \/ gz_lines = orig_lines
     \/ gz_lines = Expected(TextRead(orig_lines))

\* C10: after the call returns, the file has as many lines as before, in the
\* same order; line i is the input line with every "/" turned into a space
\* when i mod 4 = 0 and it starts with "@", and the input line itself
\* otherwise.
C10Original ==
  fpc = "returned" =>
    /\ Len(gz_lines) = Len(orig_lines)
    /\ \A k \in 1..Len(orig_lines) :
         gz_lines[k] = (IF (k - 1) % 4 = 0 /\ StartsWithAt(orig_lines[k])
                        THEN ReplaceSlash(orig_lines[k])
                        ELSE orig_lines[k])


\* C11: within a job fix_headers_for_file is called only after the job's
\* cutadapt call succeeded, never after it failed; and when the rewrite of
\* either output file fails, the job's result is a failure that carries an
\* error detail, never a success.
C11HeadersAfterTool ==
  \A j \in Jobs :
    /\ (jpc[j] \in {"headers_r1", "headers_r2"} \/ hdr_out[j] # <<>>) =>
         tool_out[j] = "ok"
    /\ tool_out[j] \in {"CalledProcessError", "Exception"} =>
         hdr_out[j] = <<>> /\ jpc[j] = "returned" /\ fut[j][2] = "False"
    /\ (\E k \in 1..Len(hdr_out[j]) : hdr_out[j][k] = "raised") =>
         /\ jpc[j] = "returned"
         /\ fut[j][2] = "False"
         /\ fut[j][3] = "Erro ajustando headers"
         /\ \A k \in ResultsOf(j) : results[k][2] = "False"

\* the rewrite of the second output file failed after cutadapt and the first
\* rewrite succeeded, and the failure has been collected
C11Witness ==
  \E j \in Jobs :
    /\ tool_out[j] = "ok" /\ hdr_out[j] = <<"ok", "raised">>
    /\ ResultsOf(j) # {}


\* C12: the jobs of two distinct pairs returned by find_paired_fastqs write
\* disjoint sets of files; in particular no two returned pairs share their
\* mate-2 file or an output name, whatever the directory holds.
C12Original ==
  ppc = "returned" =>
    \A k, m \in 1..Len(found) :
      k # m => /\ found[k][2] # found[m][2]
               /\ WriteSet(found[k]) \cap WriteSet(found[m]) = {}


Candidates == {f \in pdir : IsR1(f)}
PairsOf(c) == {k \in 1..Len(found) : found[k][1] = c}
WarningsOf(c) == {k \in 1..Len(warnings) : warnings[k] = c}

\* C14: when find_paired_fastqs has returned, whatever the directory holds and
\* in whatever order it was listed: every mate-1 candidate whose derived
\* mate-2 name is in the directory has exactly one pair (itself with that
\* mate-2) and no warning; every other candidate has no pair and exactly one
\* warning, and the function still returns; nothing else is paired; and the
\* pairs are in strictly ascending order of mate-1 name.
C14Pairing ==
  ppc = "returned" =>
    /\ \A c \in Candidates :
         IF ReplaceR1(c) \in pdir
         THEN /\ Cardinality(PairsOf(c)) = 1
              /\ \A k \in PairsOf(c) : found[k] = <<c, ReplaceR1(c)>>
              /\ WarningsOf(c) = {}
         ELSE /\ PairsOf(c) = {}
              /\ Cardinality(WarningsOf(c)) = 1
    /\ \A k \in 1..Len(found) : found[k][1] \in Candidates
    /\ \A k \in 1..Len(warnings) : warnings[k] \in Candidates
    /\ \A k, m \in 1..Len(found) : k < m => NameLess(found[k][1], found[m][1])

\* two pairs and one lone mate-1, from a listing that is not in name order
C14Witness ==
  /\ ppc = "returned"
  /\ Len(found) = 2
  /\ Len(warnings) = 1
  /\ NameLess(files[2], files[1])
  /\ \E k, m \in 1..Len(files) :
       k < m /\ files[k] = found[2][1] /\ files[m] = found[1][1]


FixOver == fpc \in {"returned", "raised", "idle"}

\* C13 (as stated): once fix_headers_for_file is over, by a return or by an
\* exception, its temporary file no longer exists; and a call that raised
\* has made the enclosing job's result a failure.
C13Original ==
  /\ FixOver => ~tmp_exists
  /\ (fpc = "idle" /\ exc) =>
       \A j \in Jobs : jpc[j] = "returned" /\ fut[j][2] = "False"

\* C13 (amended): once fix_headers_for_file is over, its temporary file no
\* longer exists unless its removal itself failed, in which case a warning
\* was logged and the call's outcome is what it would have been; a call that
\* raised has ended the enclosing job with a failed result carrying the
\* header error detail, and a call that returned has not.
C13TempRemoved ==
  /\ FixOver => (tmp_exists => remove_warning)
  /\ fpc = "returned" => ~exc
  /\ fpc = "raised" => exc
  /\ fpc = "idle" =>
       \A j \in Jobs :
         IF exc
         THEN /\ jpc[j] = "returned"
              /\ fut[j] = <<j, "False", "Erro ajustando headers">>
              /\ hdr_out[j][Len(hdr_out[j])] = "raised"
         ELSE /\ hdr_out[j][Len(hdr_out[j])] = "ok"
              /\ fut[j] # <<>> => fut[j][2] = "True"

\* the recompression failed half-way: the temporary file, fully written, was
\* removed and the job of the call has a failed result
C13Witness ==
  /\ fpc = "idle" /\ exc
  /\ tmp_lines # <<>> /\ Len(gz_lines) < Len(tmp_lines)
  /\ ~tmp_exists /\ ~remove_warning
  /\ \A j \in Jobs : fut[j] = <<j, "False", "Erro ajustando headers">>


\* lines 44-52 as a function of the stored lines: read in text mode, rewrite
Normalize(ls) == Expected(TextRead(ls))
HasSlash(line) == \E k \in 1..Len(line) : line[k] = "/"

\* C15: the file a returned call leaves is normalize(x) of the file x it was
\* given; running the rewrite on it again changes nothing,
\* normalize(normalize(x)) = normalize(x); and none of its header lines (the
\* lines at an index that is 0 mod 4 and that start with "@") contains "/".
C15Idempotent ==
  (fpc = "returned" \/ (fpc = "idle" /\ ~exc)) =>
    /\ gz_lines = Normalize(orig_lines)
    /\ Normalize(gz_lines) = gz_lines
    /\ Normalize(Normalize(orig_lines)) = Normalize(orig_lines)
    /\ \A k \in 1..Len(gz_lines) :
         ((k - 1) % 4 = 0 /\ StartsWithAt(gz_lines[k])) => ~HasSlash(gz_lines[k])

\* a returned call that rewrote two headers of two slashes each and left a
\* slash on the other lines
C15Witness ==
  /\ fpc = "returned"
  /\ Len(orig_lines) >= 5
  /\ orig_lines[1] = <<"@", "/", "/">> /\ orig_lines[5] = <<"@", "/", "/">>
  /\ gz_lines[1] = <<"@", " ", " ">> /\ gz_lines[5] = <<"@", " ", " ">>
  /\ gz_lines[2] = <<"x", "/">>


ReportOf(j) == {k \in 1..Len(report) : report[k][1] = j}
PosIn(sq, x) == CHOOSE k \in 1..Len(sq) : sq[k] = x
FailedInCompletionOrder == SelectSeq(completed, LAMBDA j : fut[j][2] # "True")

\* C16 (as stated): at the end of a run that dispatched jobs, the report has
\* one entry for every failed job and none for a succeeded one, and the
\* entries are in the order in which the jobs completed.
C16Original ==
  (mainpc = "exit" /\ Dispatched) =>
    /\ Len(report) = Len(FailedInCompletionOrder)
    /\ \A k \in 1..Len(report) : report[k][1] = FailedInCompletionOrder[k]

\* C16 (amended): the report has exactly one entry, the job's own result, for
\* every failed job and none for a succeeded one, in the order in which the
\* results were collected: a job that completed after the collection began
\* comes after every job that had completed before, and after every job that
\* completed before it; the jobs that had all completed before the collection
\* began come in any order.
C16ReportOrder ==
  (mainpc = "exit" /\ Dispatched) =>
    /\ \A j \in Jobs :
         IF Failed(j)
         THEN /\ Cardinality(ReportOf(j)) = 1
              /\ \A k \in ReportOf(j) : report[k] = fut[j] /\ report[k][3] # "None"
         ELSE ReportOf(j) = {}
    /\ \A k \in 1..Len(report) : report[k][1] \in Jobs
    /\ \A k, m \in 1..Len(report) :
         k < m => PosIn(results, report[k]) < PosIn(results, report[m])
    /\ \A k, m \in 1..Len(results) :
         (k < m /\ ~(results[k][1] \in early /\ results[m][1] \in early)) =>
           PosIn(completed, results[k][1]) < PosIn(completed, results[m][1])

\* two failed jobs, the second pair's job completing first after the
\* collection began: it is reported first
C16Witness ==
  /\ mainpc = "exit" /\ early = {}
  /\ completed = <<2, 1>>
  /\ Len(report) = 2 /\ report[1][1] = 2 /\ report[2][1] = 1


CompletionsOf(j) == {k \in 1..Len(completed) : completed[k] = j}

\* C17: each pair is the argument of one job only; cutadapt is launched at
\* most once per pair and fix_headers_for_file at most once per output file
\* (first out_r1, then out_r2); a job completes at most once and has at most
\* one collected result; a job that failed is over and is not started again;
\* and when a run that dispatched jobs ends, cutadapt was launched exactly
\* once for every pair.
C17AtMostOnce ==
  /\ \A k, m \in 1..Len(pairs) : pairs[k] = pairs[m] => k = m
  /\ \A j \in Jobs :
       /\ tool_calls[j] <= 1
       /\ Len(hdr_out[j]) <= 2
       /\ Cardinality(CompletionsOf(j)) <= 1
       /\ Cardinality(ResultsOf(j)) <= 1
       /\ Failed(j) =>
            /\ jpc[j] = "returned" /\ tool_calls[j] = 1
            /\ hdr_out[j] \in {<<>>, <<"raised">>, <<"ok", "raised">>}
       /\ (mainpc = "exit" /\ Dispatched) => tool_calls[j] = 1

\* the run is over; one job failed in cutadapt, the other in the rewrite of
\* its second output, and each was run once
C17Witness ==
  /\ mainpc = "exit" /\ dirPairs = 2
  /\ tool_out[1] = "Exception" /\ hdr_out[1] = <<>>
  /\ tool_out[2] = "ok" /\ hdr_out[2] = <<"ok", "raised">>
  /\ \A j \in Jobs : tool_calls[j] = 1 /\ Cardinality(CompletionsOf(j)) = 1


Hung == {j \in Jobs : jpc[j] = "cutadapt_hung"}
Collected(j) == jpc[j] = "returned" /\ ResultsOf(j) # {}
Exited ==
  /\ mainpc = "exit" /\ exit_code \in {0, 1}
  /\ Dispatched => \A j \in Jobs : Collected(j)

\* C18: under fair scheduling, a run in which no cutadapt call hangs ends:
\* every submitted job gets a result, the results are collected and main
\* exits with its verdict; and when a cutadapt call hangs in a pool of more
\* than one worker, every other job still completes and has its result
\* collected, unless another call hangs too.
C18Termination ==
  /\ <>(Exited \/ Hung # {})
  /\ \A j \in 1..MaxPairs :
       (j \in Hung /\ max_workers > 1)
         ~> (\/ \A k \in Jobs \ {j} : Collected(k)
             \/ Hung \ {j} # {})

\* the first job's cutadapt hangs in a pool of two workers, and the second
\* job, started after the hang, has run to its end and been collected
C18Witness ==
  /\ Hung = {1} /\ max_workers > 1 /\ dirPairs = 2
  /\ Collected(2) /\ Succeeded(2)
  /\ mainpc = "as_completed"

====
